---- MODULE Spec2Model ----
(***************************************************************************)
(* Model of the iproxy Telegram bot.                                       *)
(*                                                                         *)
(*   api.py       send_message, get_api_answer, check_response,            *)
(*                parse_status, parse_ips                                  *)
(*   commands.py  the command handlers start, start_check_devices,         *)
(*                start_check_rotation, stop_check and the two poll loops  *)
(*                check_devices and check_rotation, run as asyncio tasks   *)
(*   main.py      the earlier single-file bot: start_checking and          *)
(*                auto_check_devices                                       *)
(*                                                                         *)
(* asyncio runs every coroutine on one thread: a coroutine runs from one   *)
(* await to the next without interruption, so each action below is one     *)
(* such stretch.  Strings are sequences of tokens, f-strings are \o.       *)
(* exceptions.py of the sources defines only NoAPIAnswerError and          *)
(* BotSendMessageError; JSONError and APIRequestError are taken to be      *)
(* further subclasses of Exception, as their use in api.py requires.       *)
(***************************************************************************)
EXTENDS Integers, Sequences, FiniteSets, TLC

\* ------------------------------------------------------------------ bounds
\* Longest "result" list the API returns in the model.
MaxRecords == 2
\* Number of check_devices tasks (commands.py) that may ever be created.
MaxDevTasks == 2
\* Number of commands the bot of commands.py is sent.
MaxCommands == 2
\* Number of auto_check_devices tasks (main.py) that may ever be created.
MaxAutoTasks == 2

\* settings.RETRY_PERIOD, minutes
RETRY_PERIOD == 30
\* main.RETRY_PERIOD, seconds
MAIN_RETRY_PERIOD == 1800

\* ------------------------------------------------------------ JSON values
\* Python's None, as a value distinct from every identifier and address.
None == "None"
\* Device identifiers and external addresses are JSON strings; the two
\* domains overlap, as nothing in the API keeps them apart.
Ids == {"1.1.1.1", "2.2.2.2"}
Ips == {"1.1.1.1", "2.2.2.2"}
\* The display name the API reports for a device.
NameOf(id) == IF id = "1.1.1.1" THEN "A" ELSE "B"

ItemKeys == {"id", "name", "description", "online", "externalIp", "ipChangeEnabled"}

\* A JSON object of the "result" list: `keys` are the keys it has; a key it
\* lacks holds a fixed filler that no operator reads.
MkItem(keys, id, online, ip, enabled) ==
  [keys |-> keys,
   id |-> IF "id" \in keys THEN id ELSE None,
   name |-> IF "name" \in keys /\ "id" \in keys THEN NameOf(id) ELSE None,
   description |-> IF "description" \in keys THEN "d" ELSE None,
   online |-> IF "online" \in keys THEN online ELSE FALSE,
   externalIp |-> IF "externalIp" \in keys THEN ip ELSE None,
   ipChangeEnabled |-> IF "ipChangeEnabled" \in keys THEN enabled ELSE FALSE]

Has(item, key) == key \in item.keys

\* Sequences over S of length 0..n.
SeqUpTo(S, n) == UNION {[1..k -> S] : k \in 0..n}

\* A decoded JSON body: not an object, an object without "result", an object
\* whose "result" is not a list, or an object whose "result" is a list.
NotDict == [isdict |-> FALSE, hasresult |-> FALSE, islist |-> FALSE, items |-> <<>>]
NoResult == [isdict |-> TRUE, hasresult |-> FALSE, islist |-> FALSE, items |-> <<>>]
NotList == [isdict |-> TRUE, hasresult |-> TRUE, islist |-> FALSE, items |-> <<>>]
ResultList(items) == [isdict |-> TRUE, hasresult |-> TRUE, islist |-> TRUE, items |-> items]

Bodies(items) == {NotDict, NoResult, NotList} \cup {ResultList(s) : s \in SeqUpTo(items, MaxRecords)}

\* --------------------------------------------------------------- results
\* A call either returns a value or raises.
Ret(v) == [exc |-> "none", arg |-> "", val |-> v]
Raise(e, a) == [exc |-> e, arg |-> a, val |-> <<>>]

\* ------------------------------------------------------------- api.py
\* An insertion-ordered dict as a sequence of <<key, value>> pairs.
DictKeys(d) == {d[i][1] : i \in 1..Len(d)}
DictGet(d, k) == d[CHOOSE i \in 1..Len(d) : d[i][1] = k][2]
\* d[k] = v of a Python dict: a new key goes last, a known key keeps its place.
DictSet(d, k, v) ==
  IF k \in DictKeys(d)
  THEN [i \in 1..Len(d) |-> IF d[i][1] = k THEN <<k, v>> ELSE d[i]]
  ELSE Append(d, <<k, v>>)

\* {key: value for key, value in item.items() if key != "id"}
WithoutId(item) == [item EXCEPT !.keys = @ \ {"id"}, !.id = None]

RECURSIVE BuildData(_, _)
\* The dict comprehension of check_response, item by item: item["id"] raises
\* KeyError for an item without "id".
BuildData(items, acc) ==
  IF items = <<>> THEN Ret(acc)
  ELSE IF ~Has(Head(items), "id") THEN Raise("KeyError", "id")
  ELSE BuildData(Tail(items), DictSet(acc, Head(items).id, WithoutId(Head(items))))

check_response(response) ==
  IF ~response.isdict THEN Raise("TypeError", "Response is not Dict type.")
  ELSE IF ~response.hasresult THEN Raise("KeyError", "No key \"result\" in response.")
  ELSE IF ~response.islist THEN Raise("TypeError", "Response[\"result\"] is not List type.")
  ELSE IF response.items = <<>> THEN Raise("ValueError", "Response[\"result\"] is empty.")
  ELSE BuildData(response.items, <<>>)

RECURSIVE OfflineList(_, _)
\* The loop of parse_status over data.items(): a value without "online" is
\* logged and skipped, an offline one is rendered "name - description";
\* value["name"] and value["description"] raise KeyError when missing.
OfflineList(data, acc) ==
  IF data = <<>> THEN Ret(acc)
  ELSE LET value == Head(data)[2] IN
    IF ~Has(value, "online") THEN OfflineList(Tail(data), acc)
    ELSE IF value.online THEN OfflineList(Tail(data), acc)
    ELSE IF ~Has(value, "name") THEN Raise("KeyError", "name")
    ELSE IF ~Has(value, "description") THEN Raise("KeyError", "description")
    ELSE OfflineList(Tail(data), Append(acc, <<value.name, " - ", value.description>>))

RECURSIVE Join(_, _)
\* sep.join(parts), the parts and the result being token sequences.
Join(parts, sep) ==
  IF parts = <<>> THEN <<>>
  ELSE IF Len(parts) = 1 THEN parts[1]
  ELSE parts[1] \o <<sep>> \o Join(Tail(parts), sep)

parse_status(data) ==
  LET r == OfflineList(data, <<>>) IN
  IF r.exc = "none" THEN Ret(Join(r.val, ", ")) ELSE r

RECURSIVE parse_devices_loop(_, _)
\* The list comprehension of parse_devices: value['name'] and
\* value['description'] raise KeyError when missing.
parse_devices_loop(data, acc) ==
  IF data = <<>> THEN Ret(acc)
  ELSE LET key == Head(data)[1]
           value == Head(data)[2] IN
    IF ~Has(value, "name") THEN Raise("KeyError", "name")
    ELSE IF ~Has(value, "description") THEN Raise("KeyError", "description")
    ELSE parse_devices_loop(Tail(data),
           Append(acc, <<value.name, " - ", value.description, " - ", key>>))

parse_devices(data) == parse_devices_loop(data, <<>>)

RECURSIVE parse_ips_loopAll(_, _)
\* A parse_ips that does not look at ipChangeEnabled.
parse_ips_loopAll(data, current_ips) ==
  IF data = <<>> THEN Ret(current_ips)
  ELSE LET key == Head(data)[1]
           value == Head(data)[2] IN
    IF ~Has(value, "externalIp") THEN parse_ips_loopAll(Tail(data), current_ips)
    ELSE parse_ips_loopAll(Tail(data), DictSet(current_ips, key, value.externalIp))

RECURSIVE parse_ips_loop(_, _)
\* The loop of parse_ips: a device with ipChangeEnabled false is logged by
\* name (KeyError without one) and skipped, one without externalIp is
\* skipped, any other is entered under its key.
parse_ips_loop(data, current_ips) ==
  IF data = <<>> THEN Ret(current_ips)
  ELSE LET key == Head(data)[1]
           value == Head(data)[2] IN
    IF Has(value, "ipChangeEnabled") /\ value.ipChangeEnabled = FALSE
    THEN IF ~Has(value, "name") THEN Raise("KeyError", "name")
         ELSE parse_ips_loop(Tail(data), current_ips)
    ELSE IF ~Has(value, "externalIp") THEN parse_ips_loop(Tail(data), current_ips)
    ELSE parse_ips_loop(Tail(data), DictSet(current_ips, key, value.externalIp))

parse_ips(data) == parse_ips_loop(data, <<>>)

\* The outcome of requests.get and raise_for_status in get_api_answer.
HttpOutcomes == {"transport_error", "bad_status", "bad_json", "ok"}

\* get_api_answer: a transport failure or a non-success status (raised by
\* raise_for_status) becomes APIRequestError, an undecodable body JSONError.
get_api_answer(http, body) ==
  IF http \in {"transport_error", "bad_status"} THEN Raise("APIRequestError", http)
  ELSE IF http = "bad_json" THEN Raise("JSONError", http)
  ELSE Ret(body)

\* What one fetch can meet: a failed request, or a decoded body out of B.
Responses(B) ==
  {<<h, NotDict>> : h \in HttpOutcomes \ {"ok"}} \cup {<<"ok", b>> : b \in B}

\* ------------------------------------------------------------------ state
VARIABLES
  bot_data,   \* context.bot_data of commands.py
  tasks,      \* the asyncio tasks of commands.py: 0 is check_rotation, 1.. are check_devices
  reply,      \* the message the last command handler of commands.py sent
  ncmd,       \* how many commands the bot of commands.py has handled
  auto,       \* the auto_check_devices tasks of main.py
  seen,       \* history: the task and the response of the last fetch, where a specification records it
  hist,       \* history: what the responses fetched so far reported of each device, where recorded
  app,        \* the process of main.py: its tokens, how far main() got, its handlers
  cr_in,      \* check_response taken alone: its argument
  cr_out,     \* check_response taken alone: its outcome
  st_out      \* status: the messages it sent, or the exception that left it

vars == <<bot_data, tasks, reply, ncmd, auto, seen, hist, app, cr_in, cr_out, st_out>>

RotTask == 0
DevTasks == 1..MaxDevTasks
TaskIds == {RotTask} \cup DevTasks
NoTask == -1
TaskName(t) == IF t = RotTask THEN "check_rotation" ELSE "check_devices"

\* last_ips = {}
EmptyIps == [d \in Ids |-> None]

\* A task that does not exist yet.
\*   pc            where the coroutine is suspended
\*   retry_period  the local of that name (minutes in check_devices, seconds in check_rotation)
\*   last_ips      the local of that name
\*   exc           the exception in flight while a finally clause sleeps; of a done task, what ended it
\*   must_cancel   task.cancel() was called and CancelledError is not yet thrown into the coroutine
\*   msg           the text of the send_message call the coroutine is suspended in
\*   todo          the devices of current_ips the for loop has not reached yet
\*   device_id     the loop variable of that name, while the tick lasts
\*   data          the local of that name while the for loop is suspended
\*   msgs          the texts delivered since the last fetch
\*   fetched       how the last fetch and validation ended: "none", "ok" or "fail"
\*   sleep_for     the argument of the last asyncio.sleep call, seconds
NewTask ==
  [pc |-> "unused", retry_period |-> 0, last_ips |-> EmptyIps, exc |-> "none",
   must_cancel |-> FALSE, msg |-> <<>>, todo |-> <<>>, device_id |-> None,
   data |-> <<>>, msgs |-> <<>>,
   fetched |-> "none", sleep_for |-> 0]

BotDataKeys ==
  {"check_devices_task", "check_rotation_task", "retry_devices", "retry_rotation",
   "retry_period", "retry_check_rotation"}

\* bot_data = {}: `keys` are the keys it has; a key it lacks holds a filler.
EmptyBotData ==
  [keys |-> {}, check_devices_task |-> NoTask, check_rotation_task |-> NoTask,
   retry_devices |-> 0, retry_rotation |-> 0, retry_period |-> 0,
   retry_check_rotation |-> 0]

\* bot_data[key] = value
BotDataSet(bd, key, value) == [bd EXCEPT !.keys = @ \cup {key}, ![key] = value]
\* del bot_data[key]
BotDataDel(bd, key) ==
  [bd EXCEPT !.keys = @ \ {key}, ![key] = EmptyBotData[key]]
\* bot_data.get(key, default)
BotDataGet(bd, key, default) == IF key \in bd.keys THEN bd[key] ELSE default

\* The event loop runs one coroutine at a time and get_api_answer is a plain
\* blocking call: while a task is inside it nothing else runs.
Fetching == {t \in TaskIds : tasks[t].pc = "fetching"}
LoopFree == Fetching = {}

Alive(t) == tasks[t].pc \notin {"unused", "done"}

\* A loop that sleeps the default period whatever period it read.
SleepSecondsDefault(t, task) == RETRY_PERIOD * 60

\* ------------------------------------------------- commands.py: the loops
\* The argument of asyncio.sleep: check_devices keeps minutes and multiplies
\* at the call, check_rotation multiplied when it read the period.
SleepSeconds(t, task) ==
  IF t = RotTask THEN task.retry_period ELSE task.retry_period * 60

\* The finally clause: await asyncio.sleep(...), with `exc` still in flight.
EnterSleep(t, task, exc) ==
  [task EXCEPT !.pc = "sleep", !.exc = exc, !.msg = <<>>, !.todo = <<>>,
               !.device_id = None, !.data = <<>>,
               !.sleep_for = SleepSeconds(t, task)]

\* except Exception as error: await send_message(f'Error in program: {error}')
OnException(task, r) ==
  [task EXCEPT !.pc = "error_msg", !.msg = <<"Error in program: ", r.arg>>,
               !.todo = <<>>, !.data = <<>>]

\* check_devices, from get_api_answer to its next await.
DevicesTick(t, task, http, body) ==
  LET response == get_api_answer(http, body)
      data == IF response.exc = "none" THEN check_response(response.val) ELSE response
      offline_devices == IF data.exc = "none" THEN parse_status(data.val) ELSE data
      tick == [task EXCEPT !.msgs = <<>>,
                           !.fetched = IF data.exc = "none" THEN "ok" ELSE "fail"]
  IN IF offline_devices.exc # "none" THEN OnException(tick, offline_devices)
     ELSE IF offline_devices.val # <<>>
     THEN [tick EXCEPT !.pc = "alert",
                       !.msg = <<"Offline devices: ">> \o offline_devices.val]
     ELSE EnterSleep(t, tick, "none")

\* last_ips.get(device_id, device_id)
LastIpOrId(last_ips, device_id) ==
  IF last_ips[device_id] = None THEN device_id ELSE last_ips[device_id]

\* data["device_id"]["name"]: the subscript is the literal 'device_id', not
\* the loop variable.
DeviceIdName(data) ==
  IF "device_id" \notin DictKeys(data) THEN Raise("KeyError", "device_id")
  ELSE IF ~Has(DictGet(data, "device_id"), "name") THEN Raise("KeyError", "name")
  ELSE Ret(DictGet(data, "device_id").name)

RECURSIVE RotationLoopKeyed(_, _)
\* A for loop that stores the key where it should store the address.
RotationLoopKeyed(t, task) ==
  IF task.todo = <<>> THEN EnterSleep(t, task, "none")
  ELSE LET device_id == Head(task.todo)[1]
           ip == Head(task.todo)[2]
           rest == [task EXCEPT !.todo = Tail(@), !.device_id = device_id]
       IN IF ip = None THEN RotationLoopKeyed(t, rest)
          ELSE RotationLoopKeyed(t, [rest EXCEPT !.last_ips[device_id] = device_id])

RECURSIVE RotationLoop(_, _)
\* The for loop of check_rotation over task.todo, up to its next await, the
\* exception that leaves it, or its end.
RotationLoop(t, task) ==
  IF task.todo = <<>> THEN EnterSleep(t, task, "none")
  ELSE LET device_id == Head(task.todo)[1]
           ip == Head(task.todo)[2]
           rest == [task EXCEPT !.todo = Tail(@), !.device_id = device_id]
       IN IF ip = None THEN RotationLoop(t, rest)
          ELSE IF LastIpOrId(task.last_ips, device_id) = ip
          THEN LET name == DeviceIdName(task.data) IN
               IF name.exc # "none" THEN OnException(rest, name)
               ELSE [rest EXCEPT !.pc = "ip_alert",
                                 !.msg = <<"IP not changed on device: ", name.val>>]
          ELSE RotationLoop(t, [rest EXCEPT !.last_ips[device_id] = ip])

\* check_rotation, from get_api_answer to its next await.
RotationTick(t, task, http, body) ==
  LET response == get_api_answer(http, body)
      data == IF response.exc = "none" THEN check_response(response.val) ELSE response
      current_ips == IF data.exc = "none" THEN parse_ips(data.val) ELSE data
      tick == [task EXCEPT !.msgs = <<>>,
                           !.fetched = IF data.exc = "none" THEN "ok" ELSE "fail"]
  IN IF current_ips.exc # "none" THEN OnException(tick, current_ips)
     ELSE RotationLoop(t, [tick EXCEPT !.todo = current_ips.val, !.data = data.val])

\* The coroutine's first stretch: the period is read from bot_data once and
\* the 'started' message goes out before the loop is entered.
TaskBegin(t, task, bd) ==
  [task EXCEPT
     !.pc = "start_msg",
     !.retry_period = IF t = RotTask
                      THEN BotDataGet(bd, "retry_rotation", RETRY_PERIOD) * 60
                      ELSE BotDataGet(bd, "retry_devices", RETRY_PERIOD),
     !.msg = IF t = RotTask THEN <<"Checking rotation started">>
                            ELSE <<"Checking devices started">>]

\* The coroutine is left by exception `exc`: the task is done and its locals
\* are gone.
Finish(exc) == [NewTask EXCEPT !.pc = "done", !.exc = exc]

\* send_message returned (ok) or raised BotSendMessageError (~ok).
AfterStartMsg(task, ok) ==
  IF ok THEN [task EXCEPT !.pc = "fetching", !.msg = <<>>]
  ELSE Finish("BotSendMessageError")

\* The alert of the try block: BotSendMessageError is caught by its own
\* except clause, and either way the finally clause sleeps.
AfterAlert(t, task, ok) ==
  IF ok THEN EnterSleep(t, [task EXCEPT !.msgs = Append(@, task.msg)], "none")
  ELSE EnterSleep(t, task, "none")

\* The alert inside the for loop of check_rotation: the loop goes on after a
\* delivery, and is left for the except clause by a failure.
AfterIpAlert(t, task, ok) ==
  IF ok THEN RotationLoop(t, [task EXCEPT !.msgs = Append(@, task.msg), !.msg = <<>>])
  ELSE EnterSleep(t, task, "none")

\* An except clause that raises the error again after reporting it.
AfterErrorMsgReraise(t, task, ok) ==
  IF ok THEN EnterSleep(t, [task EXCEPT !.msgs = Append(@, task.msg)], "Exception")
  ELSE EnterSleep(t, task, "BotSendMessageError")

\* The send_message of the except Exception clause: a BotSendMessageError
\* raised there is caught by no clause of the same try statement; the finally
\* clause sleeps and the exception then leaves the loop.
AfterErrorMsg(t, task, ok) ==
  IF ok THEN EnterSleep(t, [task EXCEPT !.msgs = Append(@, task.msg)], "none")
  ELSE EnterSleep(t, task, "BotSendMessageError")

\* asyncio.sleep returned: an exception in flight leaves the coroutine,
\* otherwise the while loop calls get_api_answer again.
AfterSleep(task) ==
  IF task.exc # "none" THEN Finish(task.exc)
  ELSE [task EXCEPT !.pc = "fetching"]

\* A loop whose sleep swallows CancelledError and goes on to the next tick.
AfterCancelSwallowed(t, task, delivered) ==
  IF task.pc = "sleep" THEN [task EXCEPT !.must_cancel = FALSE, !.pc = "fetching"]
  ELSE Finish("CancelledError")

\* A loop whose except Exception clause catches CancelledError in a send
\* and reports it like any other error.
AfterCancelCaught(t, task, delivered) ==
  IF task.pc \in {"alert", "ip_alert"}
  THEN OnException([task EXCEPT !.must_cancel = FALSE], Raise("CancelledError", ""))
  ELSE Finish("CancelledError")

\* CancelledError thrown into the coroutine where it is suspended. It is a
\* BaseException: no except clause catches it. Inside the try statement the
\* finally clause still sleeps; in the sleep, and outside the loop, the task
\* ends at once. `delivered`: whether the interrupted send had gone out.
AfterCancel(t, task, delivered) ==
  LET c == [task EXCEPT !.must_cancel = FALSE] IN
  IF c.pc \in {"alert", "ip_alert", "error_msg"}
  THEN EnterSleep(t, [c EXCEPT !.msgs = IF delivered THEN Append(@, task.msg) ELSE @],
                  "CancelledError")
  ELSE Finish("CancelledError")

\* --------------------------------------------- commands.py: the handlers
\* The words a command may carry (context.args).
ArgTexts == {"check_devices", "check_rotation", "devices", "0", "2"}
\* int(text): the value, or ValueError.
IsInt(text) == text \in {"0", "2"}
IntOf(text) == IF text = "2" THEN 2 ELSE 0

\* asyncio.ensure_future(coroutine): the task is scheduled, not yet run.
\* check_rotation has one slot: its key is never deleted from bot_data.
FreeSlots(name) ==
  {t \in TaskIds : TaskName(t) = name /\ tasks[t].pc = "unused"}
NewSlot(name) == CHOOSE t \in FreeSlots(name) : \A u \in FreeSlots(name) : t <= u
Spawn(t) == [tasks EXCEPT ![t] = [NewTask EXCEPT !.pc = "created"]]

\* start: /start_check <task_name> <retry period in minutes>
StartKeys(task_name) ==
  IF task_name = "check_devices"
  THEN [task |-> "check_devices_task", retry |-> "retry_devices"]
  ELSE [task |-> "check_rotation_task", retry |-> "retry_rotation"]

start(args) ==
  /\ LoopFree
  /\ UNCHANGED <<auto, seen, hist, app, cr_in, cr_out, st_out>>
  /\ IF Len(args) < 2 \/ ~IsInt(args[2])
     THEN /\ reply' = <<"Invalid command format for start_check">>
          /\ UNCHANGED <<bot_data, tasks>>
     ELSE IF args[1] \notin {"check_devices", "check_rotation"}
     THEN /\ reply' = <<"Invalid task_name! Available options: devices, rotation">>
          /\ UNCHANGED <<bot_data, tasks>>
     ELSE LET k == StartKeys(args[1]) IN
          IF k.task \notin bot_data.keys
          THEN /\ FreeSlots(args[1]) # {}
               /\ tasks' = Spawn(NewSlot(args[1]))
               /\ bot_data' = BotDataSet(BotDataSet(bot_data, k.retry, IntOf(args[2])),
                                         k.task, NewSlot(args[1]))
               /\ reply' = <<>>
          ELSE /\ reply' = <<k.task, " is already running.">>
               /\ UNCHANGED <<bot_data, tasks>>

\* start_check_devices and start_check_rotation: the period is stored under
\* period_key before the registry is looked at.
StartCheck(args, name, task_key, period_key, running) ==
  /\ LoopFree
  /\ UNCHANGED <<auto, seen, hist, app, cr_in, cr_out, st_out>>
  /\ IF args # <<>> /\ ~IsInt(args[1])
     THEN /\ reply' = <<"Retry period must be integer!">>
          /\ UNCHANGED <<bot_data, tasks>>
     ELSE LET bd == BotDataSet(bot_data, period_key,
                               IF args # <<>> THEN IntOf(args[1]) ELSE RETRY_PERIOD)
          IN IF task_key \notin bd.keys
             THEN /\ FreeSlots(name) # {}
                  /\ tasks' = Spawn(NewSlot(name))
                  /\ bot_data' = BotDataSet(bd, task_key, NewSlot(name))
                  /\ reply' = <<>>
             ELSE /\ bot_data' = bd
                  /\ reply' = <<running>>
                  /\ UNCHANGED tasks

start_check_devices(args) ==
  StartCheck(args, "check_devices", "check_devices_task", "retry_period",
             "Checking devices is already running.")

start_check_rotation(args) ==
  StartCheck(args, "check_rotation", "check_rotation_task", "retry_check_rotation",
             "Check rotation is already running.")

\* task.cancel(): a request that the event loop throw CancelledError into
\* the coroutine; of a finished task it changes nothing.
Cancel(t) ==
  IF Alive(t) THEN [tasks EXCEPT ![t].must_cancel = TRUE] ELSE tasks

stop_check ==
  /\ LoopFree
  /\ UNCHANGED <<auto, seen, hist, app, cr_in, cr_out, st_out>>
  /\ IF "check_devices_task" \in bot_data.keys
     THEN /\ tasks' = Cancel(bot_data.check_devices_task)
          /\ bot_data' = BotDataDel(bot_data, "check_devices_task")
          /\ reply' = <<"Checking devices stopped.">>
     ELSE /\ reply' = <<"No active checking devices task found.">>
          /\ UNCHANGED <<bot_data, tasks>>

\* f'{n}' of a stored period.
PeriodText(n) == IF n = 0 THEN "0" ELSE IF n = 2 THEN "2" ELSE "30"

\* The status line of one loop: context.bot_data[retry_key] is subscripted,
\* and raises KeyError when the task key is there without it.
LoopStatus(bd, task_key, retry_key) ==
  IF task_key \notin bd.keys THEN Ret(<<"stopped">>)
  ELSE IF retry_key \notin bd.keys THEN Raise("KeyError", retry_key)
  ELSE Ret(<<"running (", PeriodText(bd[retry_key]), " min)">>)

\* status: the two status lines are built outside the try statement; inside
\* it, the device list is fetched and sent, or the error is.
status(http, body) ==
  /\ LoopFree
  /\ UNCHANGED <<bot_data, tasks, auto, seen, hist, app, cr_in, cr_out>>
  /\ LET devices_status == LoopStatus(bot_data, "check_devices_task", "retry_devices")
         rotation_status == LoopStatus(bot_data, "check_rotation_task", "retry_rotation")
         manual_response == get_api_answer(http, body)
         manual_data == IF manual_response.exc = "none"
                        THEN check_response(manual_response.val) ELSE manual_response
         manual_devices == IF manual_data.exc = "none"
                           THEN parse_devices(manual_data.val) ELSE manual_data
     IN IF devices_status.exc # "none"
        THEN reply' = <<>> /\ st_out' = devices_status
        ELSE IF rotation_status.exc # "none"
        THEN reply' = <<>> /\ st_out' = rotation_status
        ELSE /\ reply' = IF manual_devices.exc # "none"
                         THEN <<"Error in program: ", manual_devices.arg>>
                         ELSE <<"Registered devices:">> \o Join(manual_devices.val, "\n")
                              \o <<"Auto check online: ">> \o devices_status.val
                              \o <<"Auto check rotation: ">> \o rotation_status.val
             /\ st_out' = Ret(<<reply'>>)

\* ------------------------------------------------ commands.py: task steps
Suspended == {"start_msg", "alert", "ip_alert", "error_msg", "sleep"}

\* The event loop runs a scheduled task for the first time.
TaskRun(t) ==
  /\ LoopFree
  /\ tasks[t].pc = "created"
  /\ ~tasks[t].must_cancel
  /\ tasks' = [tasks EXCEPT ![t] = TaskBegin(t, tasks[t], bot_data)]
  /\ UNCHANGED <<bot_data, reply, ncmd, auto, seen, hist, app, cr_in, cr_out, st_out>>

\* The send_message a task is suspended in returns or raises.
SendReturns(t, ok) ==
  /\ LoopFree
  /\ ~tasks[t].must_cancel
  /\ tasks[t].pc \in {"start_msg", "alert", "ip_alert", "error_msg"}
  /\ tasks' = [tasks EXCEPT ![t] =
       CASE tasks[t].pc = "start_msg" -> AfterStartMsg(tasks[t], ok)
         [] tasks[t].pc = "alert" -> AfterAlert(t, tasks[t], ok)
         [] tasks[t].pc = "ip_alert" -> AfterIpAlert(t, tasks[t], ok)
         [] tasks[t].pc = "error_msg" -> AfterErrorMsg(t, tasks[t], ok)]
  /\ UNCHANGED <<bot_data, reply, ncmd, auto, seen, hist, app, cr_in, cr_out, st_out>>

\* The sleep of the finally clause is over.
Wake(t) ==
  /\ LoopFree
  /\ ~tasks[t].must_cancel
  /\ tasks[t].pc = "sleep"
  /\ tasks' = [tasks EXCEPT ![t] = AfterSleep(tasks[t])]
  /\ UNCHANGED <<bot_data, reply, ncmd, auto, seen, hist, app, cr_in, cr_out, st_out>>

\* get_api_answer returns or raises, and the task runs on to its next await.
\* Whether the response is kept in `seen` is the specification's choice.
Fetch(t, http, body) ==
  /\ tasks[t].pc = "fetching"
  /\ tasks' = [tasks EXCEPT ![t] =
       IF t = RotTask THEN RotationTick(t, tasks[t], http, body)
       ELSE DevicesTick(t, tasks[t], http, body)]
  /\ UNCHANGED <<bot_data, reply, ncmd, auto, app, cr_in, cr_out, st_out>>

\* The event loop throws CancelledError into a cancelled task.
Cancelled(t, delivered) ==
  /\ LoopFree
  /\ tasks[t].must_cancel
  /\ tasks[t].pc \in Suspended \cup {"created"}
  /\ tasks' = [tasks EXCEPT ![t] = AfterCancel(t, tasks[t], delivered)]
  /\ UNCHANGED <<bot_data, reply, ncmd, auto, seen, hist, app, cr_in, cr_out, st_out>>

\* ------------------------------------------------------ main.py: startup
\* The three values read by os.getenv; a token is in `tokens` when set.
TokenNames == {"TELEGRAM_TOKEN", "IPROXY_TOKEN", "TELEGRAM_CHAT_ID"}
MainHandlers == {"start", "start_checking", "manual_check", "request_log"}

\* The process before main() runs, and once it polls with every token set.
Boot(tokens) == [pc |-> "boot", tokens |-> tokens, handlers |-> {}]
Polling == [pc |-> "polling", tokens |-> TokenNames, handlers |-> MainHandlers]

\* A check_tokens that is content with one token.
check_tokensAny(tokens) == \E token \in TokenNames : token \in tokens

\* check_tokens: False at the first token that is None.
check_tokens(tokens) == \A token \in TokenNames : token \in tokens

\* main(): sys.exit without the tokens, otherwise the handlers are added
\* and the application polls.
main ==
  /\ app.pc = "boot"
  /\ app' = IF ~check_tokens(app.tokens) THEN [app EXCEPT !.pc = "exited"]
            ELSE [app EXCEPT !.pc = "polling", !.handlers = MainHandlers]
  /\ UNCHANGED <<bot_data, tasks, reply, ncmd, auto, seen, hist, cr_in, cr_out, st_out>>

\* ---------------------------------------------------------------- main.py
AutoTasks == 1..MaxAutoTasks

\* main.get_api_answer: a status other than 200 is NoAPIAnswerError.
main_get_api_answer(http, body) ==
  IF http = "transport_error" THEN Raise("APIRequestError", http)
  ELSE IF http = "bad_status" THEN Raise("NoAPIAnswerError", http)
  ELSE IF http = "bad_json" THEN Raise("JSONError", http)
  ELSE Ret(body)

\* main.check_response returns the list itself.
main_check_response(response) ==
  IF ~response.isdict THEN Raise("TypeError", "Response is not Dict type.")
  ELSE IF ~response.hasresult THEN Raise("KeyError", "No key \"result\" in response.")
  ELSE IF ~response.islist THEN Raise("TypeError", "Response[\"result\"] is not List type.")
  ELSE IF response.items = <<>> THEN Raise("ValueError", "Response[\"result\"] is empty.")
  ELSE Ret(response.items)

RECURSIVE main_parse_status_loop(_, _)
\* main.parse_status: the names of the offline devices; item["name"] is read
\* for the log line of an item without "online" too.
main_parse_status_loop(data, devices) ==
  IF data = <<>> THEN Ret(devices)
  ELSE LET item == Head(data) IN
    IF ~Has(item, "online")
    THEN IF ~Has(item, "name") THEN Raise("KeyError", "name")
         ELSE main_parse_status_loop(Tail(data), devices)
    ELSE IF item.online THEN main_parse_status_loop(Tail(data), devices)
    ELSE IF ~Has(item, "name") THEN Raise("KeyError", "name")
    ELSE main_parse_status_loop(Tail(data), Append(devices, item.name))

main_parse_status(data) == main_parse_status_loop(data, <<>>)

RECURSIVE main_parse_ips_loop(_, _)
\* main.parse_ips: every item is entered under its id, with None for a
\* missing externalIp.
main_parse_ips_loop(data, current_ips) ==
  IF data = <<>> THEN Ret(current_ips)
  ELSE LET item == Head(data) IN
    IF ~Has(item, "id") THEN Raise("KeyError", "id")
    ELSE IF ~Has(item, "externalIp") /\ ~Has(item, "name") THEN Raise("KeyError", "name")
    ELSE main_parse_ips_loop(Tail(data),
           DictSet(current_ips, item.id,
                   IF Has(item, "externalIp") THEN item.externalIp ELSE None))

main_parse_ips(data) == main_parse_ips_loop(data, <<>>)

\* finally: await asyncio.sleep(RETRY_PERIOD)
AutoEnterSleep(task, exc) ==
  [task EXCEPT !.pc = "sleep", !.exc = exc, !.msg = <<>>, !.todo = <<>>,
               !.device_id = None, !.data = <<>>, !.sleep_for = MAIN_RETRY_PERIOD]

RECURSIVE AutoIpLoop(_)
\* The for loop of auto_check_devices over task.todo, up to its next await
\* or its end.
AutoIpLoop(task) ==
  IF task.todo = <<>> THEN AutoEnterSleep(task, "none")
  ELSE LET device_id == Head(task.todo)[1]
           ip == Head(task.todo)[2]
           rest == [task EXCEPT !.todo = Tail(@), !.device_id = device_id]
       IN IF ip = None THEN AutoIpLoop(rest)
          ELSE IF LastIpOrId(task.last_ips, device_id) = ip
          THEN [rest EXCEPT !.pc = "ip_alert",
                            !.msg = <<"IP not changed on device: ", device_id>>]
          ELSE AutoIpLoop([rest EXCEPT !.last_ips[device_id] = ip])

\* auto_check_devices from parse_ips(data) on.
AutoIps(task) ==
  LET current_ips == main_parse_ips(task.data) IN
  IF current_ips.exc # "none" THEN OnException(task, current_ips)
  ELSE AutoIpLoop([task EXCEPT !.todo = current_ips.val, !.data = <<>>])

\* auto_check_devices, from get_api_answer to its next await.
AutoTick(task, http, body) ==
  LET response == main_get_api_answer(http, body)
      data == IF response.exc = "none" THEN main_check_response(response.val) ELSE response
      statuses == IF data.exc = "none" THEN main_parse_status(data.val) ELSE data
      tick == [task EXCEPT !.msgs = <<>>,
                           !.fetched = IF data.exc = "none" THEN "ok" ELSE "fail"]
  IN IF statuses.exc # "none" THEN OnException(tick, statuses)
     ELSE IF statuses.val # <<>>
     THEN [tick EXCEPT !.pc = "alert", !.data = data.val,
                       !.msg = <<"Offline devices: ">> \o statuses.val]
     ELSE AutoIps([tick EXCEPT !.data = data.val])

AutoBegin(task) ==
  [task EXCEPT !.pc = "start_msg", !.msg = <<"Checking devices started">>]

\* After the offline alert the try block goes on with the addresses.
AutoAfterAlert(task, ok) ==
  IF ok THEN AutoIps([task EXCEPT !.msgs = Append(@, task.msg), !.msg = <<>>])
  ELSE AutoEnterSleep(task, "none")

AutoAfterIpAlert(task, ok) ==
  IF ok THEN AutoIpLoop([task EXCEPT !.msgs = Append(@, task.msg), !.msg = <<>>])
  ELSE AutoEnterSleep(task, "none")

AutoAfterErrorMsg(task, ok) ==
  IF ok THEN AutoEnterSleep([task EXCEPT !.msgs = Append(@, task.msg)], "none")
  ELSE AutoEnterSleep(task, "BotSendMessageError")

AutoFetching == {a \in AutoTasks : auto[a].pc = "fetching"}
AutoLoopFree == AutoFetching = {}
AutoAlive(a) == auto[a].pc \notin {"unused", "done"}
AutoFree == {a \in AutoTasks : auto[a].pc = "unused"}

\* start_checking: asyncio.ensure_future(auto_check_devices(...)), whatever
\* is running already.
start_checking ==
  /\ app.pc = "polling" /\ "start_checking" \in app.handlers
  /\ AutoLoopFree
  /\ AutoFree # {}
  /\ auto' = [auto EXCEPT ![CHOOSE a \in AutoFree : \A b \in AutoFree : a <= b] =
                [NewTask EXCEPT !.pc = "created"]]
  /\ UNCHANGED <<bot_data, tasks, reply, ncmd, seen, hist, app, cr_in, cr_out, st_out>>

AutoRun(a) ==
  /\ AutoLoopFree
  /\ auto[a].pc = "created"
  /\ auto' = [auto EXCEPT ![a] = AutoBegin(auto[a])]
  /\ UNCHANGED <<bot_data, tasks, reply, ncmd, seen, hist, app, cr_in, cr_out, st_out>>

AutoSendReturns(a, ok) ==
  /\ AutoLoopFree
  /\ auto[a].pc \in {"start_msg", "alert", "ip_alert", "error_msg"}
  /\ auto' = [auto EXCEPT ![a] =
       CASE auto[a].pc = "start_msg" -> AfterStartMsg(auto[a], ok)
         [] auto[a].pc = "alert" -> AutoAfterAlert(auto[a], ok)
         [] auto[a].pc = "ip_alert" -> AutoAfterIpAlert(auto[a], ok)
         [] auto[a].pc = "error_msg" -> AutoAfterErrorMsg(auto[a], ok)]
  /\ UNCHANGED <<bot_data, tasks, reply, ncmd, seen, hist, app, cr_in, cr_out, st_out>>

AutoWake(a) ==
  /\ AutoLoopFree
  /\ auto[a].pc = "sleep"
  /\ auto' = [auto EXCEPT ![a] = AfterSleep(auto[a])]
  /\ UNCHANGED <<bot_data, tasks, reply, ncmd, seen, hist, app, cr_in, cr_out, st_out>>

AutoFetch(a, http, body) ==
  /\ auto[a].pc = "fetching"
  /\ auto' = [auto EXCEPT ![a] = AutoTick(auto[a], http, body)]
  /\ UNCHANGED <<bot_data, tasks, reply, ncmd, app, cr_in, cr_out, st_out>>

\* ------------------------------------------------------- specifications
InitCommands ==
  /\ bot_data = EmptyBotData
  /\ tasks = [t \in TaskIds |-> NewTask]
  /\ reply = <<>>
  /\ ncmd = 0

InitAuto == auto = [a \in AutoTasks |-> NewTask]

\* hist.ips[d]: the externalIp values reported in records with id d;
\* hist.enabled: the ids reported in a record that does not say
\* ipChangeEnabled false.
NoHist == [ips |-> [d \in Ids |-> {}], enabled |-> {}]
Reported(h, r) ==
  LET items == IF r[1] = "ok" THEN r[2].items ELSE <<>>
      of(d) == {i \in DOMAIN items : Has(items[i], "id") /\ items[i].id = d}
  IN [ips |-> [d \in Ids |-> h.ips[d] \cup
                 {items[i].externalIp : i \in {j \in of(d) : Has(items[j], "externalIp")}}],
      enabled |-> h.enabled \cup
                 {d \in Ids : \E i \in of(d) :
                    ~(Has(items[i], "ipChangeEnabled") /\ items[i].ipChangeEnabled = FALSE)}]

NotSeen == [task |-> NoTask, http |-> "none", body |-> NotDict]
Saw(t, r) == [task |-> t, http |-> r[1], body |-> r[2]]

InitCR ==
  /\ seen = NotSeen
  /\ hist = NoHist
  /\ app = Polling
  /\ cr_in = NotDict
  /\ cr_out = Raise("pending", "")
  /\ st_out = Raise("pending", "")

Init == InitCommands /\ InitAuto /\ InitCR

\* A device that reports every key.
FullItem(id, online, ip) == MkItem(ItemKeys, id, online, ip, TRUE)

\* The bot of commands.py under its commands, with an API that reports one
\* device, up or down, at either address, or a body that fails validation.
SpecBodies ==
  Bodies({}) \cup {ResultList(<<FullItem("1.1.1.1", on, ip)>>) : on \in BOOLEAN, ip \in Ips}

\* One more command arrives.
Command == ncmd < MaxCommands /\ ncmd' = ncmd + 1

Start == Command /\ \E args \in SeqUpTo(ArgTexts, 2) : start(args)
StartCheckDevices == Command /\ \E args \in SeqUpTo(ArgTexts, 1) : start_check_devices(args)
StartCheckRotation == Command /\ \E args \in SeqUpTo(ArgTexts, 1) : start_check_rotation(args)
StopCheck == Command /\ stop_check
Run == \E t \in TaskIds : TaskRun(t)
Send == \E t \in TaskIds, ok \in BOOLEAN : SendReturns(t, ok)
Sleep == \E t \in TaskIds : Wake(t)
Tick ==
  /\ \E t \in TaskIds, r \in Responses(SpecBodies) : Fetch(t, r[1], r[2])
  /\ UNCHANGED <<seen, hist>>
Throw == \E t \in TaskIds, delivered \in BOOLEAN : Cancelled(t, delivered)

Next ==
  \/ Start
  \/ StartCheckDevices
  \/ StartCheckRotation
  \/ StopCheck
  \/ Run
  \/ Send
  \/ Sleep
  \/ Tick
  \/ Throw

Spec == Init /\ [][Next]_vars

\* ---- check_response taken alone
\* What check_devices reads of a device: name and description present or
\* not, online absent, true or false; and one object without "id".
DevItems ==
  {MkItem({"id"} \cup meta \cup on.keys, id, on.val, None, FALSE) :
     id \in Ids,
     meta \in {{"name", "description"}, {"description"}, {"name"}},
     on \in {[keys |-> {}, val |-> FALSE], [keys |-> {"online"}, val |-> TRUE],
             [keys |-> {"online"}, val |-> FALSE]}}
  \cup {MkItem({"name", "description", "online"}, None, FALSE, None, FALSE)}

\* What check_rotation reads of a device: name present or not, rotation
\* enabled or not, externalIp absent or one of the addresses; and one object
\* without "id".
RotItems ==
  {MkItem({"id", "description", "ipChangeEnabled"} \cup meta \cup ip.keys,
          id, FALSE, ip.val, enabled) :
     id \in Ids,
     meta \in {{"name"}, {}},
     enabled \in BOOLEAN,
     ip \in {[keys |-> {}, val |-> None]} \cup {[keys |-> {"externalIp"}, val |-> x] : x \in Ips}}
  \cup {MkItem({"name", "description", "externalIp"}, None, FALSE, "1.1.1.1", FALSE)}

InitCheckResponse ==
  /\ InitCommands
  /\ InitAuto
  /\ seen = NotSeen
  /\ hist = NoHist
  /\ app = Polling
  /\ cr_in \in Bodies(DevItems \cup RotItems)
  /\ cr_out = Raise("pending", "")
  /\ st_out = Raise("pending", "")

CheckResponse ==
  /\ cr_out.exc = "pending"
  /\ cr_out' = check_response(cr_in)
  /\ UNCHANGED <<bot_data, tasks, reply, ncmd, auto, seen, hist, app, cr_in, st_out>>

SpecCR == InitCheckResponse /\ [][CheckResponse]_vars

\* ---- check_devices under start and stop_check, every shape of response
Periods == {"0", "2"}
DevStart == Command /\ \E p \in Periods : start(<<"check_devices", p>>)
DevTick ==
  \E t \in DevTasks, r \in Responses(Bodies(DevItems)) :
    Fetch(t, r[1], r[2]) /\ seen' = Saw(t, r)
    /\ UNCHANGED hist

NextDev ==
  \/ DevStart
  \/ StopCheck
  \/ Run
  \/ Send
  \/ Sleep
  \/ DevTick
  \/ Throw

SpecDev == Init /\ [][NextDev]_vars

\* ---- check_rotation under start, every shape of response
RotStart == Command /\ \E p \in Periods : start(<<"check_rotation", p>>)
RotTick ==
  /\ \E r \in Responses(Bodies(RotItems)) :
       Fetch(RotTask, r[1], r[2]) /\ hist' = Reported(hist, r)
  /\ UNCHANGED seen

NextRot ==
  \/ RotStart
  \/ Run
  \/ Send
  \/ Sleep
  \/ RotTick

SpecRot == Init /\ [][NextRot]_vars

\* ---- check_rotation over devices with rotation enabled, the response of
\* each tick and what was reported so far being recorded
IpItems ==
  {MkItem({"id", "name", "description", "ipChangeEnabled"} \cup ip.keys,
          id, FALSE, ip.val, TRUE) :
     id \in Ids,
     ip \in {[keys |-> {}, val |-> None]} \cup {[keys |-> {"externalIp"}, val |-> x] : x \in Ips}}

IpTick ==
  \E r \in Responses(Bodies(IpItems)) :
    /\ Fetch(RotTask, r[1], r[2])
    /\ seen' = Saw(RotTask, r)
    /\ hist' = Reported(hist, r)

NextIps ==
  \/ RotStart
  \/ Run
  \/ Send
  \/ Sleep
  \/ IpTick

SpecIps == Init /\ [][NextIps]_vars

\* ---- check_devices started, stopped and started again, with the event
\* loop's scheduling: a timer that can fire does fire, a cancellation is
\* delivered, and a request to the API ends.
MaxStopCommands == 3
StopCommand == ncmd < MaxStopCommands /\ ncmd' = ncmd + 1
StopStart == StopCommand /\ \E p \in Periods : start(<<"check_devices", p>>)
StopStop == StopCommand /\ stop_check
StopTick ==
  /\ \E t \in DevTasks, r \in Responses(SpecBodies) : Fetch(t, r[1], r[2])
  /\ UNCHANGED <<seen, hist>>

NextStop ==
  \/ StopStart
  \/ StopStop
  \/ Run
  \/ Send
  \/ Sleep
  \/ StopTick
  \/ Throw

FairStop ==
  /\ WF_vars(StopTick)
  /\ \A t \in DevTasks :
       /\ SF_vars(Wake(t))
       /\ SF_vars(\E delivered \in BOOLEAN : Cancelled(t, delivered))

SpecStop == Init /\ [][NextStop]_vars /\ FairStop

\* ---- the command handlers of commands.py and status, no loop running on
StatusBodies ==
  SpecBodies \cup {ResultList(<<MkItem({"id", "description"}, "1.1.1.1", FALSE, None, FALSE)>>)}
Status == Command /\ \E r \in Responses(StatusBodies) : status(r[1], r[2])

NextStatus ==
  \/ Start
  \/ StartCheckDevices
  \/ StartCheckRotation
  \/ StopCheck
  \/ Status

SpecStatus == Init /\ [][NextStatus]_vars

\* ---- main.py
\* What auto_check_devices reads of one device: online or not, externalIp
\* absent or one of the addresses; and the same device reporting nothing.
MainItems ==
  {MkItem({"id", "name", "description", "online"} \cup ip.keys, "1.1.1.1", on, ip.val, FALSE) :
     on \in BOOLEAN,
     ip \in {[keys |-> {}, val |-> None]} \cup {[keys |-> {"externalIp"}, val |-> x] : x \in Ips}}
  \cup {MkItem({"id"}, "1.1.1.1", FALSE, None, FALSE)}

StartChecking == start_checking
AutoStart == \E a \in AutoTasks : AutoRun(a)
AutoSend == \E a \in AutoTasks, ok \in BOOLEAN : AutoSendReturns(a, ok)
AutoSleep == \E a \in AutoTasks : AutoWake(a)
AutoRequest ==
  /\ \E a \in AutoTasks, r \in Responses(Bodies(MainItems)) : AutoFetch(a, r[1], r[2])
  /\ UNCHANGED <<seen, hist>>

Main == main

NextMain ==
  \/ Main
  \/ StartChecking
  \/ AutoStart
  \/ AutoSend
  \/ AutoSleep
  \/ AutoRequest

\* main.py starts with any of its tokens set or not.
InitMain ==
  /\ InitCommands
  /\ InitAuto
  /\ seen = NotSeen
  /\ hist = NoHist
  /\ app \in {Boot(tokens) : tokens \in SUBSET TokenNames}
  /\ cr_in = NotDict
  /\ cr_out = Raise("pending", "")
  /\ st_out = Raise("pending", "")

SpecMain == InitMain /\ [][NextMain]_vars

\* ================================================================ claims

\* C1: a BotSendMessageError raised by a send_message call made inside a
\* running poll loop, the alert's or the error summary's, never leaves the
\* loop: no loop sleeps in its finally clause with that exception in flight,
\* to be ended by it when the sleep is over.
C1_DeliveryFailureStaysInLoop ==
  \A t \in TaskIds :
    tasks[t].pc = "sleep" => tasks[t].exc # "BotSendMessageError"

\* C4: starting a poll loop that is already running never spawns a
\* duplicate: at most one auto_check_devices task of main.py is alive, and
\* at most one alive task per loop name of commands.py.
C4_NoDuplicateLoop ==
  /\ Cardinality({a \in AutoTasks : AutoAlive(a)}) <= 1
  /\ \A name \in {"check_devices", "check_rotation"} :
       Cardinality({t \in TaskIds : TaskName(t) = name /\ Alive(t)}) <= 1

\* A step of the loop named `name`, and a step of a command handler.
LoopStep(name) ==
  \E t \in {u \in TaskIds : TaskName(u) = name} :
    \/ TaskRun(t)
    \/ Wake(t)
    \/ \E ok \in BOOLEAN : SendReturns(t, ok)
    \/ \E delivered \in BOOLEAN : Cancelled(t, delivered)
HandlerStep == stop_check \/ \E args \in SeqUpTo(ArgTexts, 2) : start(args)
OtherLoop(name) == IF name = "check_devices" THEN "check_rotation" ELSE "check_devices"

\* C8: while one loop is in its fetching step, the other loop, if it has a
\* step to take, can take it, and the command handlers can run.
C8_FetchDoesNotBlock ==
  \A t \in Fetching :
    /\ ENABLED HandlerStep
    /\ \A u \in TaskIds :
         (TaskName(u) = OtherLoop(TaskName(t)) /\ tasks[u].pc \in Suspended \cup {"created"})
           => ENABLED LoopStep(TaskName(u))

\* The exception classes check_response tells its callers apart by.
SchemaErrors == {"KeyError", "TypeError", "ValueError"}

\* C9: check_response raises KeyError for every object without "result",
\* TypeError when "result" is not a list and ValueError when it is an empty
\* list; KeyError only when "result" is absent; and a non-empty list of
\* records is returned parsed, with none of the three raised.
C9_SchemaErrorKinds ==
  cr_out.exc # "pending" =>
    /\ (cr_in.isdict /\ ~cr_in.hasresult) => cr_out.exc = "KeyError"
    /\ (cr_in.hasresult /\ ~cr_in.islist) => cr_out.exc = "TypeError"
    /\ (cr_in.islist /\ cr_in.items = <<>>) => cr_out.exc = "ValueError"
    /\ cr_out.exc = "KeyError" => ~cr_in.hasresult
    /\ (cr_in.islist /\ cr_in.items # <<>>) => cr_out.exc \notin SchemaErrors

\* The for loop of check_rotation took the branch of an unchanged address
\* for task.device_id: it is suspended in that branch's send_message, or
\* the branch's data["device_id"] raised.
InUnchangedBranch(task) ==
  \/ task.pc = "ip_alert"
  \/ task.pc = "error_msg" /\ task.msg = <<"Error in program: ", "device_id">>

\* C2: a device without an entry in last_ips never takes the branch of an
\* unchanged address, whatever its address: whenever that branch is taken,
\* the device has an entry.
C2_FirstObservationNeverUnchanged ==
  InUnchangedBranch(tasks[RotTask]) =>
    tasks[RotTask].last_ips[tasks[RotTask].device_id] # None

\* C3: the API reports one rotation-enabled device d at address x. On the
\* tick that finds no entry for d, x is recorded and nothing is sent; on a
\* tick that finds x recorded, 'IP not changed on device: <name>' is sent
\* for d and nothing else.
C3_UnchangedIpAlert ==
  [][\A d \in Ids : \A x \in Ips \ {d} :
       Fetch(RotTask, "ok", ResultList(<<FullItem(d, TRUE, x)>>)) =>
         /\ tasks[RotTask].last_ips[d] = None =>
              /\ tasks'[RotTask].pc = "sleep"
              /\ tasks'[RotTask].last_ips[d] = x
         /\ tasks[RotTask].last_ips[d] = x =>
              /\ tasks'[RotTask].pc = "ip_alert"
              /\ tasks'[RotTask].msg = <<"IP not changed on device: ", NameOf(d)>>
              /\ tasks'[RotTask].todo = <<>>]_vars

\* C5: when stop_check is invoked while the check_devices loop sleeps, the
\* task is cancelled in its sleep; the cancellation can be delivered at once,
\* the timer cannot fire any more, and the only step the task takes from
\* there ends it with CancelledError: it waits no further and fetches no more.
C5_StopDuringSleep ==
  /\ [][\A t \in DevTasks :
         /\ ( /\ stop_check
              /\ "check_devices_task" \in bot_data.keys
              /\ bot_data.check_devices_task = t
              /\ tasks[t].pc = "sleep" )
            => tasks'[t] = [tasks[t] EXCEPT !.must_cancel = TRUE]
         /\ (tasks[t].pc = "sleep" /\ tasks[t].must_cancel /\ tasks'[t] # tasks[t])
            => tasks'[t] = Finish("CancelledError")]_vars
  /\ [](\A t \in DevTasks :
         (tasks[t].pc = "sleep" /\ tasks[t].must_cancel /\ LoopFree)
           => (ENABLED Cancelled(t, TRUE)) /\ ~(ENABLED Wake(t)))

\* A check_devices task cancelled in its sleep by stop_check.
C5_Witness ==
  \E t \in DevTasks :
    /\ tasks[t].pc = "sleep" /\ tasks[t].must_cancel
    /\ tasks[t].fetched # "none"
    /\ "check_devices_task" \notin bot_data.keys
    /\ reply = <<"Checking devices stopped.">>

\* The positions of a task inside a tick.
TickPcs == {"fetching", "alert", "ip_alert", "error_msg"}

\* C6: in both loops the period is read once, when the loop starts, and is
\* never changed; every tick, however it went, is left into exactly one sleep
\* of that period (60 seconds per minute read); a fetch starts only after
\* the start message or after a sleep; and a sleep ends in the next fetch or
\* in the end of the task.
C6_FixedCadence ==
  [][\A t \in TaskIds :
       LET a == tasks[t]
           b == tasks'[t]
           minutes == IF t = RotTask THEN a.retry_period \div 60 ELSE a.retry_period
       IN /\ (a.pc = "created" /\ b.pc = "start_msg")
             => \/ t = RotTask
                   /\ b.retry_period = 60 * BotDataGet(bot_data, "retry_rotation", RETRY_PERIOD)
                \/ t # RotTask
                   /\ b.retry_period = BotDataGet(bot_data, "retry_devices", RETRY_PERIOD)
          /\ (a.pc \in TickPcs \cup {"start_msg", "sleep"} /\ b.pc # "done")
             => b.retry_period = a.retry_period
          /\ (a.pc # "fetching" /\ b.pc = "fetching") => a.pc \in {"start_msg", "sleep"}
          /\ (a.pc \in TickPcs /\ b.pc \notin TickPcs)
             => b.pc = "sleep" /\ b.sleep_for = 60 * minutes
          /\ (a.pc = "sleep" /\ b.pc # "sleep") => b.pc \in {"fetching", "done"}
          /\ (a.pc = "sleep" /\ b.pc = "sleep") => b.sleep_for = a.sleep_for]_vars

\* Both loops run with a period of 2 minutes: check_rotation sleeps 120
\* seconds after a tick, check_devices is in its second tick after a failed
\* first one and a sleep of 120 seconds.
C6_Witness ==
  /\ tasks[RotTask].pc = "sleep" /\ tasks[RotTask].sleep_for = 120
  /\ \E t \in DevTasks :
       /\ tasks[t].pc = "fetching" /\ tasks[t].fetched = "fail"
       /\ tasks[t].sleep_for = 120

\* The fetch or the validation of a tick fails on this response.
FetchFails(r) ==
  \/ r[1] # "ok"
  \/ ~r[2].isdict \/ ~r[2].hasresult \/ ~r[2].islist \/ r[2].items = <<>>

\* C7: a tick whose fetch or validation fails leaves the last-IP map as it
\* was, sends no alert and goes to the one error-summary notification; when
\* that is delivered the loop sleeps with no exception in flight, having sent
\* exactly that one message, and the sleep of a loop nobody stopped ends in
\* the next fetch.
C7_FetchFailure ==
  [][\A t \in TaskIds :
       LET a == tasks[t]
           b == tasks'[t]
       IN /\ a.pc = "fetching"
             => \A r \in Responses(SpecBodies) :
                  (FetchFails(r) /\ Fetch(t, r[1], r[2]))
                    => /\ b.pc = "error_msg"
                       /\ Len(b.msg) = 2 /\ b.msg[1] = "Error in program: "
                       /\ b.msgs = <<>>
                       /\ b.last_ips = a.last_ips
          /\ (a.pc = "error_msg" /\ a.fetched = "fail" /\ SendReturns(t, TRUE))
             => /\ b.pc = "sleep" /\ b.exc = "none"
                /\ b.msgs = <<a.msg>>
                /\ b.last_ips = a.last_ips
          /\ (a.pc = "sleep" /\ a.exc = "none" /\ Wake(t))
             => b.pc = "fetching" /\ b.last_ips = a.last_ips]_vars

\* check_rotation is back in its fetch after a tick whose fetch failed and
\* whose one message was the error summary, with a last-IP entry from an
\* earlier tick still in place.
C7_Witness ==
  /\ tasks[RotTask].pc = "fetching"
  /\ tasks[RotTask].fetched = "fail"
  /\ Len(tasks[RotTask].msgs) = 1
  /\ tasks[RotTask].msgs[1][1] = "Error in program: "
  /\ \E d \in Ids : tasks[RotTask].last_ips[d] # None

\* An offline record: the flag is present and false.
IsOffline(item) == Has(item, "online") /\ ~item.online

\* A response that is fetched and validated, with pairwise distinct ids.
Fetched(r) ==
  /\ r.http = "ok"
  /\ r.body.isdict /\ r.body.hasresult /\ r.body.islist /\ r.body.items # <<>>
  /\ \A i \in DOMAIN r.body.items : Has(r.body.items[i], "id")
  /\ \A i, j \in DOMAIN r.body.items :
       i # j => r.body.items[i].id # r.body.items[j].id

\* C10: in a check_devices tick whose fetch succeeded, the alert lists
\* exactly the offline records, each as 'name - description', in the order
\* of the response; it is the one notification of the tick when there is an
\* offline record, and there is no notification when there is none.
C10_OfflineAlert ==
  [][\A t \in DevTasks :
       (tasks[t].pc = "fetching" /\ seen'.task = t /\ Fetched(seen'))
         => LET off == SelectSeq(seen'.body.items, IsOffline)
                b == tasks'[t]
            IN IF off = <<>>
               THEN b.pc = "sleep" /\ b.msgs = <<>>
               ELSE /\ b.pc = "alert" /\ b.msgs = <<>>
                    /\ Len(b.msg) = 4 * Len(off)
                    /\ b.msg[1] = "Offline devices: "
                    /\ \A i \in DOMAIN off :
                         SubSeq(b.msg, 4 * i - 2, 4 * i)
                           = <<off[i].name, " - ", off[i].description>>]_vars

NowIps(s, d) ==
  IF s.http # "ok" THEN {}
  ELSE {s.body.items[i].externalIp :
          i \in {j \in DOMAIN s.body.items :
                   /\ Has(s.body.items[j], "id") /\ s.body.items[j].id = d
                   /\ Has(s.body.items[j], "externalIp")}}

\* C12: every value of last_ips is an address that some response so far
\* reported for that device; and an entry is inserted or updated only with
\* an address the response of the current tick reports for the device, so a
\* device reported without externalIp keeps the entry, or the absence, it had.
C12_OnlyReportedIps ==
  /\ [](\A d \in Ids :
          tasks[RotTask].last_ips[d] # None
            => tasks[RotTask].last_ips[d] \in hist.ips[d])
  /\ [][\A d \in Ids :
          ( /\ tasks'[RotTask].pc # "done"
            /\ tasks'[RotTask].last_ips[d] # tasks[RotTask].last_ips[d] )
            => tasks'[RotTask].last_ips[d] \in NowIps(seen', d)]_vars

\* A device recorded in an earlier tick keeps its entry through a tick that
\* reports it without externalIp while the other device is recorded.
C12_Witness ==
  \E d \in Ids : \E e \in Ids \ {d} :
    /\ tasks[RotTask].pc = "sleep"
    /\ seen.http = "ok" /\ Len(seen.body.items) = 2
    /\ seen.body.items[1].id = d /\ ~Has(seen.body.items[1], "externalIp")
    /\ seen.body.items[2].id = e /\ Has(seen.body.items[2], "externalIp")
    /\ tasks[RotTask].last_ips[d] # None
    /\ tasks[RotTask].last_ips[e] = seen.body.items[2].externalIp
    /\ hist.ips[e] = Ips

\* C13: in a tick whose validated response reports, under distinct ids, a
\* device at the address recorded for it, the branch of an unchanged address
\* is taken for that device, at once or after the devices before it, and its
\* entry stays; and no step of a running loop removes an entry.
C13_UnchangedIsIdempotent ==
  [][\A d \in Ids :
       LET a == tasks[RotTask]
           b == tasks'[RotTask]
       IN /\ ( /\ a.pc = "fetching" /\ seen'.task = RotTask /\ Fetched(seen')
               /\ a.last_ips[d] # None
               /\ NowIps(seen', d) = {a.last_ips[d]} )
             => /\ b.last_ips[d] = a.last_ips[d]
                /\ InUnchangedBranch(b)
                /\ b.device_id = d \/ d \in DictKeys(b.todo)
          /\ (a.last_ips[d] # None /\ b.pc # "done") => b.last_ips[d] # None]_vars

\* A record with every field check_devices reads, reported offline.
CompleteOffline(item) ==
  /\ {"id", "name", "description", "online"} \subseteq item.keys
  /\ ~item.online

\* C14: a check_devices tick whose response is a non-empty list of records,
\* some of them lacking a field, is not an error tick, and every complete
\* offline record of the response is named in the alert of the tick.
C14_AnomalousRecordSkipped ==
  [][\A t \in DevTasks :
       ( /\ tasks[t].pc = "fetching" /\ seen'.task = t /\ seen'.http = "ok"
         /\ seen'.body.isdict /\ seen'.body.hasresult /\ seen'.body.islist
         /\ seen'.body.items # <<>> )
         => /\ tasks'[t].pc # "error_msg"
            /\ \A i \in DOMAIN seen'.body.items :
                 CompleteOffline(seen'.body.items[i])
                   => \E k \in DOMAIN tasks'[t].msg :
                        tasks'[t].msg[k] = seen'.body.items[i].name]_vars

\* The positions of a task that has read its period and runs its loop.
Running == TickPcs \cup {"start_msg", "sleep"}

\* C15: the period of a running loop is positive.
C15_PositivePeriod ==
  \A t \in TaskIds : tasks[t].pc \in Running => tasks[t].retry_period > 0

\* The bot_data key under which the loop of task t is registered, and
\* whether t is the task registered there.
TaskKey(t) == StartKeys(TaskName(t)).task
Registered(t) == TaskKey(t) \in bot_data.keys /\ bot_data[TaskKey(t)] = t

\* C16: whichever loop is running, a stop command can be given that cancels
\* its task, takes it out of the registry and reports it stopped.
C16_LoopsCanBeStopped ==
  \A t \in TaskIds :
    (LoopFree /\ tasks[t].pc \in Running /\ Registered(t))
      => ENABLED ( /\ stop_check
                   /\ tasks'[t].must_cancel
                   /\ TaskKey(t) \notin bot_data'.keys
                   /\ Len(reply') = 1 )

\* The period of a command: its argument, or the default when it has none.
PeriodOf(args, i) == IF Len(args) >= i THEN IntOf(args[i]) ELSE RETRY_PERIOD

\* C17: when a start command schedules a loop, the period that loop reads
\* when it begins is the period of that command: the second argument of
\* start, the argument of start_check_devices and start_check_rotation, or
\* the default when there is none.
C17_PeriodFromCommand ==
  [][\A t \in TaskIds :
       (tasks[t].pc = "unused" /\ tasks'[t].pc = "created")
         => LET read == TaskBegin(t, tasks'[t], bot_data').retry_period
                minutes == IF t = RotTask THEN read \div 60 ELSE read
            IN /\ \A args \in SeqUpTo(ArgTexts, 2) :
                    start(args) => minutes = PeriodOf(args, 2)
               /\ \A args \in SeqUpTo(ArgTexts, 1) :
                    (start_check_devices(args) \/ start_check_rotation(args))
                      => minutes = PeriodOf(args, 1)]_vars

\* C18: in a run of main.py that began without one of its three tokens the
\* process never gets past its exit: no handler is added, start_checking
\* cannot run, and no loop task exists, so nothing is fetched or sent.
C18_NoStartWithoutSecrets ==
  app.tokens # TokenNames
    => /\ app.pc \in {"boot", "exited"}
       /\ app.handlers = {}
       /\ ~(ENABLED start_checking)
       /\ \A a \in AutoTasks : auto[a] = NewTask
       /\ \A t \in TaskIds : tasks[t] = NewTask

\* main() has exited for a missing chat id alone.
C18_Witness ==
  app.pc = "exited" /\ app.tokens = TokenNames \ {"TELEGRAM_CHAT_ID"}

\* C19: a loop whose task key is in bot_data, which is what 'already
\* running' and the status report go by, has a task that is alive.
C19_RegistryConsistent ==
  \A name \in {"check_devices", "check_rotation"} :
    StartKeys(name).task \in bot_data.keys
      => \E t \in TaskIds : TaskName(t) = name /\ Alive(t)

\* A task that stop_check cancelled: the cancellation is still to be
\* delivered, or CancelledError is in flight through the finally clause.
IsCancelled(t) == tasks[t].must_cancel \/ tasks[t].exc = "CancelledError"

\* The positions in which a task is suspended in send_message.
SendPcs == {"start_msg", "alert", "ip_alert", "error_msg"}

\* C20: stop_check leaves the registered check_devices task cancelled; a
\* cancelled task stays cancelled, never fetches, starts no send, and
\* delivers nothing but the send it was interrupted in; of the check_devices
\* tasks alive at most one is not cancelled; and a cancelled task ends.
C20_CancelledTaskIsInert ==
  /\ [][\A t \in DevTasks :
          LET a == tasks[t]
              b == tasks'[t]
          IN /\ (stop_check /\ Registered(t) /\ Alive(t)) => IsCancelled(t)'
             /\ (IsCancelled(t) /\ b # a)
                => /\ b.pc \in {"sleep", "done"}
                   /\ b.pc = "sleep"
                      => /\ IsCancelled(t)'
                         /\ a.pc \in SendPcs
                         /\ b.msgs \in {a.msgs, Append(a.msgs, a.msg)}]_vars
  /\ [](Cardinality({t \in DevTasks : Alive(t) /\ ~IsCancelled(t)}) <= 1)
  /\ \A t \in DevTasks : IsCancelled(t) ~> tasks[t].pc = "done"

\* A check_devices task cancelled in its alert sleeps out its period with
\* CancelledError in flight while the task started after the stop fetches.
C20_Witness ==
  \E t \in DevTasks : \E u \in DevTasks \ {t} :
    /\ tasks[t].pc = "sleep" /\ tasks[t].exc = "CancelledError"
    /\ tasks[u].pc = "fetching"

\* C21: when a check_rotation tick whose response was validated, with
\* distinct ids, goes to its sleep, every device the response reports at an
\* address has that address as its entry, whatever happened to the devices
\* before it; but for a device alerted at first sight, which has no entry.
C21_DevicesIndependent ==
  [][LET a == tasks[RotTask]
         b == tasks'[RotTask]
     IN ( /\ a.pc \in TickPcs /\ b.pc = "sleep"
          /\ seen'.task = RotTask /\ Fetched(seen') )
          => \A d \in Ids : \A x \in NowIps(seen', d) :
               \/ b.last_ips[d] = x
               \/ b.last_ips[d] = None /\ x = d]_vars

\* C22: a start command that schedules no task, whichever handler and
\* arguments it came with, leaves bot_data as it was.
C22_RejectedStartChangesNothing ==
  [][\A args \in SeqUpTo(ArgTexts, 2) :
       ( /\ \/ start(args)
            \/ Len(args) <= 1 /\ start_check_devices(args)
            \/ Len(args) <= 1 /\ start_check_rotation(args)
         /\ tasks' = tasks )
         => bot_data' = bot_data]_vars

\* C23: whatever start and stop commands came before it, status ends
\* without an exception and has sent exactly one message.
C23_StatusAlwaysAnswers ==
  st_out.exc # "pending" => (st_out.exc = "none" /\ Len(st_out.val) = 1)
====
